---- MODULE Spec2Model ----
(***************************************************************************)
(* A model of the inet_diag dump reader of michaelasp/test_tcp:            *)
(*   - processSingleMessage, the message classifier (unnamed/part_000),    *)
(*   - the two getSnapshots receive loops (main.go and unnamed/part_000),  *)
(*   - MakeArchivalRecord, ParseRouteAttr, Decode and the attribute        *)
(*     conversions of the parser package (unnamed/part_001).               *)
(* Byte slices are sequences of 0..255.  A Go pointer or slice that may be *)
(* nil is a sequence of length 0 (nil) or 1 (the value).                   *)
(***************************************************************************)
EXTENDS Integers, Sequences, FiniteSets, TLC

VARIABLES
  variant,    \* which getSnapshots runs: "main" (main.go) or "part0" (part_000)
  pc,         \* position of getSnapshots
  recvCalls,  \* number of s.Receive() calls made so far
  msgs,       \* the batch returned by the last s.Receive()
  i,          \* index of the range loop over msgs (1-based)
  it,         \* locals of the last loop iteration: m, shouldContinue, err, cur
  done,       \* part_000: the done flag of the current batch
  archives,   \* part_000: the records collected so far
  j,          \* part_000: index of the range loop over archives (1-based)
  snps,       \* the snapshots collected so far
  ret,        \* what getSnapshots returned: snapshots and error
  call,       \* unit specification: the function applied and its input
  out         \* unit specification: its result

vars == <<variant, pc, recvCalls, msgs, i, it, done, archives, j, snps, ret, call, out>>

(***************************************************************************)
(* Bounds of the model.                                                    *)
(***************************************************************************)
MaxReceives == 2
MaxBatchLen == 2

(***************************************************************************)
(* Program constants.                                                      *)
(***************************************************************************)
NLMSG_ERROR == 2
NLMSG_DONE == 3
NLM_F_MULTI == 2
SOCK_DIAG_BY_FAMILY == 20
SizeofRtAttr == 4
SizeofInetDiagMsg == 72

INET_DIAG_MEMINFO == 1
INET_DIAG_INFO == 2
INET_DIAG_VEGASINFO == 3
INET_DIAG_CONG == 4
INET_DIAG_TOS == 5
INET_DIAG_TCLASS == 6
INET_DIAG_SKMEMINFO == 7
INET_DIAG_SHUTDOWN == 8
INET_DIAG_DCTCPINFO == 9
INET_DIAG_PROTOCOL == 10
INET_DIAG_SKV6ONLY == 11
INET_DIAG_LOCALS == 12
INET_DIAG_PEERS == 13
INET_DIAG_PAD == 14
INET_DIAG_MARK == 15
INET_DIAG_BBRINFO == 16
INET_DIAG_CLASS_ID == 17
INET_DIAG_MD5SIG == 18
INET_DIAG_MAX == 19

\* unsafe.Sizeof of the kernel ABI structures the attributes are mapped onto
SizeofMemInfo == 16
SizeofLinuxTCPInfo == 232
SizeofVegasInfo == 16
SizeofSocketMemInfo == 36
SizeofDCTCPInfo == 16
SizeofBBRInfo == 24

(***************************************************************************)
(* Values.                                                                 *)
(***************************************************************************)
Nil == <<>>
Some(x) == <<x>>
IsNil(p) == Len(p) = 0
Val(p) == p[1]

NoErr == "nil"
ErrBadSequence == "ErrBadSequence"
ErrBadPid == "ErrBadPid"
ErrBadMsgData == "ErrBadMsgData"
ErrNotType20 == "ErrNotType20"
ErrParseFailed == "ErrParseFailed"
ErrEmptyRecord == "error empty record"
ErrTransport == "transport error"

\* a & b on naturals
RECURSIVE BitAnd(_, _)
BitAnd(a, b) ==
  IF a = 0 \/ b = 0 THEN 0
  ELSE ((a % 2) * (b % 2)) + 2 * BitAnd(a \div 2, b \div 2)

\* A uint32 bit mask is the set of the positions (0..31) of its one bits: a | b
\* is the union, and the mask 0 is the empty set.
BitOr(a, b) == a \cup b

\* native.Uint16 on a little-endian host, of the bytes at 1-based offset o
Uint16At(b, o) == b[o] + 256 * b[o + 1]
\* a uint32 value is kept as its four little-endian bytes
Uint32At(b, o) == SubSeq(b, o, o + 3)
\* int32(native.Uint32(b[o:o+4])): two's complement, computed within 32 bits
Int32At(b, o) ==
  IF b[o + 3] < 128
    THEN b[o] + 256 * b[o + 1] + 65536 * b[o + 2] + 16777216 * b[o + 3]
    ELSE (-1) - ((255 - b[o]) + 256 * (255 - b[o + 1]) + 65536 * (255 - b[o + 2])
                 + 16777216 * (255 - b[o + 3]))

Zeros(n) == [k \in 1..n |-> 0]

(***************************************************************************)
(* processSingleMessage (part_000, lines 38-68).                           *)
(* The result is the triple (m, shouldContinue, err).                      *)
(***************************************************************************)
Triple(m, c, e) == [m |-> m, cont |-> c, err |-> e]

\* int32(native.Uint32(m.Data[0:4]))
ErrorCode(data) == Int32At(data, 1)

\* a plausible slip: the pid of the message is not compared
processSingleMessageNoPidCheck(m, seq, pid) ==
  IF m.Seq # seq THEN Triple(Nil, FALSE, ErrBadSequence)
  ELSE IF m.Type = NLMSG_DONE THEN Triple(Nil, FALSE, NoErr)
  ELSE IF m.Type = NLMSG_ERROR /\ Len(m.Data) < 4 THEN Triple(Nil, FALSE, ErrBadMsgData)
  ELSE IF m.Type = NLMSG_ERROR /\ ErrorCode(m.Data) = 0 THEN Triple(Nil, FALSE, NoErr)
  ELSE IF BitAnd(m.Flags, NLM_F_MULTI) = 0 THEN Triple(Some(m), FALSE, NoErr)
  ELSE Triple(Some(m), TRUE, NoErr)

\* a plausible slip: NLMSG_DONE is not recognised and handled as a data message
processSingleMessageNoDone(m, seq, pid) ==
  IF m.Seq # seq THEN Triple(Nil, FALSE, ErrBadSequence)
  ELSE IF m.Pid # pid THEN Triple(Nil, FALSE, ErrBadPid)
  ELSE IF m.Type = NLMSG_ERROR /\ Len(m.Data) < 4 THEN Triple(Nil, FALSE, ErrBadMsgData)
  ELSE IF m.Type = NLMSG_ERROR /\ ErrorCode(m.Data) = 0 THEN Triple(Nil, FALSE, NoErr)
  ELSE IF BitAnd(m.Flags, NLM_F_MULTI) = 0 THEN Triple(Some(m), FALSE, NoErr)
  ELSE Triple(Some(m), TRUE, NoErr)

\* a plausible slip: an error message with code 0 is skipped and the dump goes on
processSingleMessageAckContinues(m, seq, pid) ==
  IF m.Seq # seq THEN Triple(Nil, FALSE, ErrBadSequence)
  ELSE IF m.Pid # pid THEN Triple(Nil, FALSE, ErrBadPid)
  ELSE IF m.Type = NLMSG_DONE THEN Triple(Nil, FALSE, NoErr)
  ELSE IF m.Type = NLMSG_ERROR /\ Len(m.Data) < 4 THEN Triple(Nil, FALSE, ErrBadMsgData)
  ELSE IF m.Type = NLMSG_ERROR /\ ErrorCode(m.Data) = 0 THEN Triple(Nil, TRUE, NoErr)
  ELSE IF BitAnd(m.Flags, NLM_F_MULTI) = 0 THEN Triple(Some(m), FALSE, NoErr)
  ELSE Triple(Some(m), TRUE, NoErr)

\* a plausible slip of lines 54-56: a payload too short for a code taken as code 0
processSingleMessageShortIsAck(m, seq, pid) ==
  IF m.Seq # seq THEN Triple(Nil, FALSE, ErrBadSequence)
  ELSE IF m.Pid # pid THEN Triple(Nil, FALSE, ErrBadPid)
  ELSE IF m.Type = NLMSG_DONE THEN Triple(Nil, FALSE, NoErr)
  ELSE IF m.Type = NLMSG_ERROR /\ Len(m.Data) < 4 THEN Triple(Nil, FALSE, NoErr)
  ELSE IF m.Type = NLMSG_ERROR /\ ErrorCode(m.Data) = 0 THEN Triple(Nil, FALSE, NoErr)
  ELSE IF BitAnd(m.Flags, NLM_F_MULTI) = 0 THEN Triple(Some(m), FALSE, NoErr)
  ELSE Triple(Some(m), TRUE, NoErr)

\* a plausible slip of line 64: the flags compared with NLM_F_MULTI instead of masked
processSingleMessageFlagsEqual(m, seq, pid) ==
  IF m.Seq # seq THEN Triple(Nil, FALSE, ErrBadSequence)
  ELSE IF m.Pid # pid THEN Triple(Nil, FALSE, ErrBadPid)
  ELSE IF m.Type = NLMSG_DONE THEN Triple(Nil, FALSE, NoErr)
  ELSE IF m.Type = NLMSG_ERROR /\ Len(m.Data) < 4 THEN Triple(Nil, FALSE, ErrBadMsgData)
  ELSE IF m.Type = NLMSG_ERROR /\ ErrorCode(m.Data) = 0 THEN Triple(Nil, FALSE, NoErr)
  ELSE IF m.Flags # NLM_F_MULTI THEN Triple(Some(m), FALSE, NoErr)
  ELSE Triple(Some(m), TRUE, NoErr)

processSingleMessage(m, seq, pid) ==
  IF m.Seq # seq THEN Triple(Nil, FALSE, ErrBadSequence)
  ELSE IF m.Pid # pid THEN Triple(Nil, FALSE, ErrBadPid)
  ELSE IF m.Type = NLMSG_DONE THEN Triple(Nil, FALSE, NoErr)
  ELSE IF m.Type = NLMSG_ERROR /\ Len(m.Data) < 4 THEN Triple(Nil, FALSE, ErrBadMsgData)
  ELSE IF m.Type = NLMSG_ERROR /\ ErrorCode(m.Data) = 0 THEN Triple(Nil, FALSE, NoErr)
  \* a non-zero code is printed and the message falls through
  ELSE IF BitAnd(m.Flags, NLM_F_MULTI) = 0 THEN Triple(Some(m), FALSE, NoErr)
  ELSE Triple(Some(m), TRUE, NoErr)

(***************************************************************************)
(* ParseRouteAttr (part_001, lines 39-51).                                 *)
(***************************************************************************)
rtaAlignOf(n) == 4 * ((n + 3) \div 4)

SubSeqFrom(b, from) == SubSeq(b, from, Len(b))

\* the RtAttr header at the start of b, its value buffer and its aligned length;
\* a length below the header size or beyond the buffer is an error
netlinkRouteAttrAndValue(b) ==
  LET alen == Uint16At(b, 1) IN
  IF alen < SizeofRtAttr \/ alen > Len(b)
    THEN [a |-> [Len |-> alen, Type |-> Uint16At(b, 3)], vbuf |-> <<>>, alen |-> 0,
          err |-> ErrParseFailed]
    ELSE [a |-> [Len |-> alen, Type |-> Uint16At(b, 3)],
          vbuf |-> SubSeqFrom(b, SizeofRtAttr + 1),
          alen |-> rtaAlignOf(alen), err |-> NoErr]

AttrsResult(attrs, e, p) == [attrs |-> attrs, err |-> e, panic |-> p]

RECURSIVE ParseRouteAttrLoop(_, _)
ParseRouteAttrLoop(b, attrs) ==
  IF Len(b) < SizeofRtAttr THEN AttrsResult(attrs, NoErr, FALSE)
  ELSE LET r == netlinkRouteAttrAndValue(b) IN
    IF r.err # NoErr THEN AttrsResult(<<>>, r.err, FALSE)
    ELSE LET ra == [Type |-> r.a.Type,
                    Value |-> SubSeq(r.vbuf, 1, r.a.Len - SizeofRtAttr)] IN
      \* b = b[alen:] is out of range when the padding is missing
      IF r.alen > Len(b) THEN AttrsResult(<<>>, NoErr, TRUE)
      ELSE ParseRouteAttrLoop(SubSeqFrom(b, r.alen + 1), Append(attrs, ra))

ParseRouteAttr(b) == ParseRouteAttrLoop(b, <<>>)

(***************************************************************************)
(* MakeArchivalRecord (part_001, lines 56-106).                            *)
(***************************************************************************)
\* inetdiag.SplitInetDiagMsg: the fixed header and the attribute bytes, or nil
\* when the payload is shorter than the header
SplitInetDiagMsg(data) ==
  LET align == rtaAlignOf(SizeofInetDiagMsg) IN
  IF Len(data) < align THEN [raw |-> Nil, attrBytes |-> <<>>]
  ELSE [raw |-> Some(SubSeq(data, 1, align)), attrBytes |-> SubSeqFrom(data, align + 1)]

\* Parse (lines 114-122): the header must hold a whole InetDiagMsg
Parse(raw) ==
  IF Len(raw) < rtaAlignOf(SizeofInetDiagMsg) THEN [idm |-> Nil, err |-> ErrParseFailed]
  ELSE [idm |-> Some(raw), err |-> NoErr]

\* InetDiagSockID.SrcIP / DstIP: the 16 address bytes, an IPv4 address when
\* only the first four are used
IDiagSrc(idm) == SubSeq(idm, 9, 24)
IDiagDst(idm) == SubSeq(idm, 25, 40)
IsIPv6(a) == \E k \in 5..16 : a[k] # 0

\* net.IP.To4 of the address SrcIP / DstIP returns: the four bytes of an IPv4
\* address, the last four of an IPv4-mapped IPv6 address (::ffff:a.b.c.d), and
\* nil for any other IPv6 address
To4(a) ==
  IF ~IsIPv6(a) THEN Some(SubSeq(a, 1, 4))
  ELSE IF (\A k \in 1..10 : a[k] = 0) /\ a[11] = 255 /\ a[12] = 255
    THEN Some(SubSeq(a, 13, 16))
  ELSE Nil

\* isLocal (lines 108-110): loopback, link-local unicast, multicast, unspecified;
\* each test answers by the IPv4 address when To4 gives one
isLocal(a) ==
  LET ip4 == To4(a) IN
  IF ~IsNil(ip4)
    THEN \/ Val(ip4)[1] = 127
         \/ Val(ip4)[1] = 169 /\ Val(ip4)[2] = 254
         \/ (Val(ip4)[1] \div 16) = 14
         \/ \A k \in 1..4 : Val(ip4)[k] = 0
    ELSE \/ (\A k \in 1..15 : a[k] = 0) /\ a[16] = 1
         \/ a[1] = 254 /\ (a[2] \div 64) = 2
         \/ a[1] = 255
         \/ \A k \in 1..16 : a[k] = 0

RECURSIVE MaxType(_, _)
MaxType(attrs, k) ==
  IF k > Len(attrs) THEN 0
  ELSE LET rest == MaxType(attrs, k + 1) IN
       IF attrs[k].Type > rest THEN attrs[k].Type ELSE rest

\* lines 81-90
\* a plausible slip of lines 87-90: the largest type taken without the bound
maxAttrTypeNoClamp(attrs) == MaxType(attrs, 1)

maxAttrType(attrs) ==
  LET m == MaxType(attrs, 1) IN
  IF m > 2 * INET_DIAG_MAX THEN 2 * INET_DIAG_MAX ELSE m

\* a plausible slip of lines 98-102: a duplicate type is logged and skipped
RECURSIVE FillAttributesFirstWins(_, _, _, _)
FillAttributesFirstWins(attrs, k, max, table) ==
  IF k > Len(attrs) THEN table
  ELSE LET t == attrs[k].Type IN
    IF t > max \/ ~IsNil(table[t + 1])
      THEN FillAttributesFirstWins(attrs, k + 1, max, table)
    ELSE FillAttributesFirstWins(attrs, k + 1, max,
                                 [table EXCEPT ![t + 1] = Some(attrs[k].Value)])

\* lines 92-103: the table, index t at position t + 1; a later occurrence overwrites
RECURSIVE FillAttributes(_, _, _, _)
FillAttributes(attrs, k, max, table) ==
  IF k > Len(attrs) THEN table
  ELSE LET t == attrs[k].Type IN
    IF t > max THEN FillAttributes(attrs, k + 1, max, table)
    ELSE FillAttributes(attrs, k + 1, max, [table EXCEPT ![t + 1] = Some(attrs[k].Value)])

RecResult(rec, e, p) == [rec |-> rec, err |-> e, panic |-> p]

MakeArchivalRecord(msg, skipLocal) ==
  IF msg.Type # SOCK_DIAG_BY_FAMILY THEN RecResult(Nil, ErrNotType20, FALSE)
  ELSE LET s == SplitInetDiagMsg(msg.Data) IN
    IF IsNil(s.raw) THEN RecResult(Nil, ErrParseFailed, FALSE)
    ELSE LET p == Parse(Val(s.raw)) IN
      IF skipLocal /\ p.err # NoErr THEN RecResult(Nil, p.err, FALSE)
      ELSE IF skipLocal /\ (isLocal(IDiagSrc(Val(p.idm))) \/ isLocal(IDiagDst(Val(p.idm))))
        THEN RecResult(Nil, NoErr, FALSE)
      ELSE LET a == ParseRouteAttr(s.attrBytes) IN
        IF a.panic THEN RecResult(Nil, NoErr, TRUE)
        ELSE IF a.err # NoErr THEN RecResult(Nil, a.err, FALSE)
        ELSE LET max == maxAttrType(a.attrs) IN
          RecResult(Some([RawIDM |-> s.raw,
                          Attributes |-> FillAttributes(a.attrs, 1, max,
                                                        [k \in 1..(max + 1) |-> Nil]),
                          Metadata |-> Nil]),
                    NoErr, FALSE)

(***************************************************************************)
(* Conversions from RouteAttr.Value (part_001, lines 205-310).             *)
(* Each returns the value v and the flag ok.                               *)
(***************************************************************************)
Conv(v, ok) == [v |-> v, ok |-> ok]

\* maybeCopy (lines 205-212): the struct the returned pointer is read as
maybeCopy(src, size) ==
  IF Len(src) < size
    THEN Conv(Some(src \o Zeros(size - Len(src))), TRUE)
    ELSE Conv(Some(SubSeq(src, 1, size)), Len(src) = size)

toMemInfo(raw) == maybeCopy(raw, SizeofMemInfo)
toLinuxTCPInfo(raw) == maybeCopy(raw, SizeofLinuxTCPInfo)
toVegasInfo(raw) == maybeCopy(raw, SizeofVegasInfo)
toSockMemInfo(raw) == maybeCopy(raw, SizeofSocketMemInfo)
toDCTCPInfo(raw) == maybeCopy(raw, SizeofDCTCPInfo)
toBBRInfo(raw) == maybeCopy(raw, SizeofBBRInfo)

\* CongestionAlgorithm (lines 245-248): raw[:len(raw)-1] is out of range for an
\* empty value
CongestionAlgorithmPanics(raw) == Len(raw) = 0
CongestionAlgorithm(raw) == Conv(SubSeq(raw, 1, Len(raw) - 1), TRUE)

\* a plausible slip of lines 251-253: an empty value reported as parsed
toUint8EmptyOk(raw) == IF Len(raw) < 1 THEN Conv(0, TRUE) ELSE Conv(raw[1], TRUE)

toUint8(raw) == IF Len(raw) < 1 THEN Conv(0, FALSE) ELSE Conv(raw[1], TRUE)
toTOS(raw) == toUint8(raw)
toTCLASS(raw) == toUint8(raw)
toClassID(raw) == toUint8(raw)
toShutdown(raw) == toUint8(raw)
toProtocol(raw) == toUint8(raw)

toMark(raw) == IF Len(raw) # 4 THEN Conv(Zeros(4), FALSE) ELSE Conv(Uint32At(raw, 1), TRUE)

(***************************************************************************)
(* Decode (part_001, lines 126-193).                                       *)
(***************************************************************************)
ZeroSnapshot ==
  [Observed |-> {}, NotFullyParsed |-> {}, InetDiagMsg |-> Nil,
   CongestionAlgorithm |-> <<>>, TOS |-> 0, TClass |-> 0, ClassID |-> 0,
   Shutdown |-> 0, Protocol |-> 0, Mark |-> Zeros(4),
   TCPInfo |-> Nil, MemInfo |-> Nil, SocketMem |-> Nil,
   VegasInfo |-> Nil, DCTCPInfo |-> Nil, BBRInfo |-> Nil]

\* the switch of lines 146-185: the field set and the flag ok
Switch(result, t, rta) ==
  CASE t = INET_DIAG_MEMINFO ->
         LET c == toMemInfo(rta) IN [res |-> [result EXCEPT !.MemInfo = c.v], ok |-> c.ok]
    [] t = INET_DIAG_INFO ->
         LET c == toLinuxTCPInfo(rta) IN [res |-> [result EXCEPT !.TCPInfo = c.v], ok |-> c.ok]
    [] t = INET_DIAG_VEGASINFO ->
         LET c == toVegasInfo(rta) IN [res |-> [result EXCEPT !.VegasInfo = c.v], ok |-> c.ok]
    [] t = INET_DIAG_CONG ->
         LET c == CongestionAlgorithm(rta) IN
         [res |-> [result EXCEPT !.CongestionAlgorithm = c.v], ok |-> c.ok]
    [] t = INET_DIAG_TOS ->
         LET c == toTOS(rta) IN [res |-> [result EXCEPT !.TOS = c.v], ok |-> c.ok]
    [] t = INET_DIAG_TCLASS ->
         LET c == toTCLASS(rta) IN [res |-> [result EXCEPT !.TClass = c.v], ok |-> c.ok]
    [] t = INET_DIAG_SKMEMINFO ->
         LET c == toSockMemInfo(rta) IN [res |-> [result EXCEPT !.SocketMem = c.v], ok |-> c.ok]
    [] t = INET_DIAG_SHUTDOWN ->
         LET c == toShutdown(rta) IN [res |-> [result EXCEPT !.Shutdown = c.v], ok |-> c.ok]
    [] t = INET_DIAG_DCTCPINFO ->
         LET c == toDCTCPInfo(rta) IN [res |-> [result EXCEPT !.DCTCPInfo = c.v], ok |-> c.ok]
    [] t = INET_DIAG_PROTOCOL ->
         LET c == toProtocol(rta) IN [res |-> [result EXCEPT !.Protocol = c.v], ok |-> c.ok]
    [] t = INET_DIAG_MARK ->
         LET c == toMark(rta) IN [res |-> [result EXCEPT !.Mark = c.v], ok |-> c.ok]
    [] t = INET_DIAG_BBRINFO ->
         LET c == toBBRInfo(rta) IN [res |-> [result EXCEPT !.BBRInfo = c.v], ok |-> c.ok]
    [] t = INET_DIAG_CLASS_ID ->
         LET c == toClassID(rta) IN [res |-> [result EXCEPT !.ClassID = c.v], ok |-> c.ok]
    \* SKV6ONLY, LOCALS, PEERS, PAD, MD5SIG and every other type: nothing is set
    [] OTHER -> [res |-> result, ok |-> FALSE]

\* uint32(1) << uint8(t-1): the shift count wraps to 8 bits, and a count of 32
\* or more shifts the bit out
ShiftCount(t) == (t - 1) % 256
Bit(t) == IF ShiftCount(t) < 32 THEN {ShiftCount(t)} ELSE {}

\* a plausible slip of lines 186-190: the Observed bit set only for a parsed attribute
SetBitsObservedIfOk(result, t, ok) ==
  IF ok THEN [result EXCEPT !.Observed = BitOr(@, Bit(t))]
  ELSE [result EXCEPT !.NotFullyParsed = BitOr(@, Bit(t))]

\* lines 186-190
SetBits(result, t, ok) ==
  IF ok THEN [result EXCEPT !.Observed = BitOr(@, Bit(t))]
  ELSE [result EXCEPT !.Observed = BitOr(@, Bit(t)),
                      !.NotFullyParsed = BitOr(@, Bit(t))]

DecResult(meta, snp, e, p) == [meta |-> meta, snp |-> snp, err |-> e, panic |-> p]

\* the loop of lines 140-191 from table index t on
RECURSIVE DecodeLoop(_, _, _)
DecodeLoop(ar, t, result) ==
  IF t >= Len(ar.Attributes) THEN DecResult(ar.Metadata, Some(result), NoErr, FALSE)
  ELSE LET raw == ar.Attributes[t + 1] IN
    IF IsNil(raw) THEN DecodeLoop(ar, t + 1, result)
    ELSE IF t = INET_DIAG_CONG /\ CongestionAlgorithmPanics(Val(raw))
      THEN DecResult(Nil, Nil, NoErr, TRUE)
    ELSE LET s == Switch(result, t, Val(raw)) IN
      DecodeLoop(ar, t + 1, SetBits(s.res, t, s.ok))

\* a plausible slip of line 130: a record is empty as soon as one of the two is absent
DecodeEmptyIfEither(ar) ==
  IF IsNil(ar.Metadata) \/ IsNil(ar.RawIDM) THEN DecResult(Nil, Nil, ErrEmptyRecord, FALSE)
  ELSE LET p == Parse(Val(ar.RawIDM)) IN
    IF p.err # NoErr THEN DecResult(Nil, Nil, p.err, FALSE)
    ELSE DecodeLoop(ar, 0, [ZeroSnapshot EXCEPT !.InetDiagMsg = p.idm])

Decode(ar) ==
  IF IsNil(ar.Metadata) /\ IsNil(ar.RawIDM) THEN DecResult(Nil, Nil, ErrEmptyRecord, FALSE)
  ELSE LET p == IF IsNil(ar.RawIDM) THEN [idm |-> Nil, err |-> NoErr]
                ELSE Parse(Val(ar.RawIDM)) IN
    IF p.err # NoErr THEN DecResult(Nil, Nil, p.err, FALSE)
    ELSE DecodeLoop(ar, 0, [ZeroSnapshot EXCEPT !.InetDiagMsg = p.idm])

\* parser.MakeSnapShot: MakeArchivalRecord followed by Decode
SnapResult(cur, e, p) == [cur |-> cur, err |-> e, panic |-> p]

MakeSnapShot(msg, skipLocal) ==
  LET r == MakeArchivalRecord(msg, skipLocal) IN
  IF r.panic THEN SnapResult(Nil, NoErr, TRUE)
  ELSE IF r.err # NoErr \/ IsNil(r.rec) THEN SnapResult(Nil, r.err, FALSE)
  ELSE LET d == Decode(Val(r.rec)) IN SnapResult(d.snp, d.err, d.panic)

\* inetdiag.ProcessMessage: the classifier main.go calls
ProcessMessage(m, seq, pid) == processSingleMessage(m, seq, pid)

(***************************************************************************)
(* The messages the kernel may send: wire encodings.                       *)
(***************************************************************************)
\* the request in flight: req.Seq, and the pid s.GetPid() returned
Req == [Seq |-> 1, Pid |-> 7]

Msg(seq, pid, type, flags, data) ==
  [Seq |-> seq, Pid |-> pid, Type |-> type, Flags |-> flags, Data |-> data]

\* an inet_diag_msg of an IPv4 socket whose source address starts with byte a
Hdr(a) ==
  [k \in 1..SizeofInetDiagMsg |->
     IF k = 1 THEN 2 ELSE IF k = 2 THEN 1
     ELSE IF k = 9 THEN a ELSE IF k = 12 THEN 1
     ELSE IF k \in 25..28 THEN 8 ELSE 0]

\* one attribute: header (length, type), value and padding to 4 bytes
Attr(t, v) ==
  LET n == SizeofRtAttr + Len(v) IN
  <<n % 256, n \div 256, t % 256, t \div 256>> \o v \o Zeros(rtaAlignOf(n) - n)

Cubic == <<99, 117, 98, 105, 99, 0>>
GoodData == Hdr(10) \o Attr(INET_DIAG_INFO, <<1, 2, 3, 4>>) \o Attr(INET_DIAG_CONG, Cubic)

GoodMulti == Msg(Req.Seq, Req.Pid, SOCK_DIAG_BY_FAMILY, NLM_F_MULTI, GoodData)
GoodLast == Msg(Req.Seq, Req.Pid, SOCK_DIAG_BY_FAMILY, 0, GoodData)
DoneMsg == Msg(Req.Seq, Req.Pid, NLMSG_DONE, NLM_F_MULTI, <<0, 0, 0, 0>>)
BadPid == Msg(Req.Seq, Req.Pid + 1, SOCK_DIAG_BY_FAMILY, NLM_F_MULTI, GoodData)
BadSeq == Msg(Req.Seq + 1, Req.Pid, SOCK_DIAG_BY_FAMILY, NLM_F_MULTI, GoodData)
AckMsg == Msg(Req.Seq, Req.Pid, NLMSG_ERROR, NLM_F_MULTI, <<0, 0, 0, 0>>)
\* errno 2 (ENOENT): the code is -2
KernelErr == Msg(Req.Seq, Req.Pid, NLMSG_ERROR, 0, <<254, 255, 255, 255>>)
ErrShort == Msg(Req.Seq, Req.Pid, NLMSG_ERROR, 0, <<0, 0>>)
LocalLast == Msg(Req.Seq, Req.Pid, SOCK_DIAG_BY_FAMILY, 0,
                 Hdr(127) \o Attr(INET_DIAG_INFO, <<1, 2, 3, 4>>))
ShortMulti == Msg(Req.Seq, Req.Pid, SOCK_DIAG_BY_FAMILY, NLM_F_MULTI, <<2, 1, 0, 0>>)
\* a socket reported without INET_DIAG_INFO
NoInfoLast == Msg(Req.Seq, Req.Pid, SOCK_DIAG_BY_FAMILY, 0,
                  Hdr(10) \o Attr(INET_DIAG_CONG, Cubic))
\* an attribute that announces 8 bytes and holds 4
Truncated == Msg(Req.Seq, Req.Pid, SOCK_DIAG_BY_FAMILY, NLM_F_MULTI,
                 Hdr(10) \o <<8, 0, 1, 0>>)

Wire == {GoodMulti, GoodLast, DoneMsg, BadPid, BadSeq, AckMsg, KernelErr, ErrShort,
         LocalLast, NoInfoLast, ShortMulti, Truncated}

\* what one s.Receive() may return
Batches == UNION {[1..n -> Wire] : n \in 0..MaxBatchLen}

(***************************************************************************)
(* getSnapshots (main.go, lines 16-60; part_000, lines 70-130).            *)
(***************************************************************************)
NoIteration ==
  [ran |-> FALSE, msg |-> Nil, m |-> Nil, cont |-> FALSE, err |-> NoErr,
   cur |-> Nil, exterr |-> NoErr]
Iteration(msg, r, cur, exterr) ==
  [ran |-> TRUE, msg |-> Some(msg), m |-> r.m, cont |-> r.cont, err |-> r.err,
   cur |-> cur, exterr |-> exterr]

NoRet == [returned |-> FALSE, snps |-> Nil, err |-> NoErr]

\* a plausible slip: return snps, err
ReturnErrKeeping(collected, e) == [returned |-> TRUE, snps |-> collected, err |-> e]

\* return nil, err
ReturnErr(collected, e) == [returned |-> TRUE, snps |-> Nil, err |-> e]

\* return snps, nil
ReturnSnps(collected) == [returned |-> TRUE, snps |-> collected, err |-> NoErr]

Init ==
  /\ variant \in {"main", "part0"}
  /\ pc = "start"
  /\ recvCalls = 0
  /\ msgs = <<>>
  /\ i = 1
  /\ it = NoIteration
  /\ done = FALSE
  /\ archives = <<>>
  /\ j = 1
  /\ snps = <<>>
  /\ ret = NoRet
  /\ call = [fn |-> "none"]
  /\ out = [done |-> FALSE]

\* nl.Subscribe, s.Send and s.GetPid succeed
Start ==
  /\ pc = "start"
  /\ pc' = "recv"
  /\ UNCHANGED <<variant, recvCalls, msgs, i, it, done, archives, j, snps, ret, call, out>>

\* one of them fails: return nil, err
StartFail ==
  /\ pc = "start"
  /\ pc' = "returned"
  /\ ret' = ReturnErr(snps, ErrTransport)
  /\ UNCHANGED <<variant, recvCalls, msgs, i, it, done, archives, j, snps, call, out>>

\* msgs, _, err := s.Receive() with a nil error; an empty batch leads to the next Receive
Receive ==
  /\ pc = "recv"
  /\ recvCalls < MaxReceives
  /\ \E b \in Batches :
       /\ msgs' = b
       /\ pc' = IF Len(b) = 0 THEN "recv" ELSE "loop"
  /\ recvCalls' = recvCalls + 1
  /\ i' = 1
  /\ done' = FALSE
  /\ UNCHANGED <<variant, it, archives, j, snps, ret, call, out>>

\* s.Receive() fails: return nil, err
ReceiveFail ==
  /\ pc = "recv"
  /\ recvCalls < MaxReceives
  /\ recvCalls' = recvCalls + 1
  /\ pc' = "returned"
  /\ ret' = ReturnErr(snps, ErrTransport)
  /\ UNCHANGED <<variant, msgs, i, it, done, archives, j, snps, call, out>>

\* the position after iteration i of the range loop: the next message, or the
\* code after the loop
AfterMessage(next) == IF i < Len(msgs) THEN "loop" ELSE next

\* main.go, lines 40-56: one iteration of the range loop over msgs; msgs and its
\* index live as long as the loop over the batch
LoopMain ==
  /\ variant = "main"
  /\ pc = "loop"
  /\ LET msg == msgs[i]
         r == ProcessMessage(msg, Req.Seq, Req.Pid)
         s == IF IsNil(r.m) THEN SnapResult(Nil, NoErr, FALSE)
              ELSE MakeSnapShot(Val(r.m), TRUE)
     IN
     /\ it' = Iteration(msg, r, s.cur, s.err)
     /\ IF r.err # NoErr
          THEN /\ pc' = "returned"
               /\ ret' = ReturnErr(snps, r.err)
               /\ UNCHANGED snps
        ELSE IF s.panic
          THEN /\ pc' = "panic"
               /\ UNCHANGED <<snps, ret>>
        ELSE IF ~IsNil(r.m) /\ (IsNil(s.cur) \/ s.err # NoErr)
          \* continue: the next message, or the next Receive
          THEN /\ pc' = AfterMessage("recv")
               /\ UNCHANGED <<snps, ret>>
        ELSE LET collected == IF IsNil(r.m) THEN snps ELSE Append(snps, Val(s.cur)) IN
          /\ snps' = collected
          /\ IF ~r.cont
               THEN /\ pc' = "returned"
                    /\ ret' = ReturnSnps(collected)
               ELSE /\ pc' = AfterMessage("recv")
                    /\ UNCHANGED ret
  /\ msgs' = IF pc' = "loop" THEN msgs ELSE <<>>
  /\ i' = IF pc' = "loop" THEN i + 1 ELSE 1
  /\ UNCHANGED <<variant, recvCalls, done, archives, j, call, out>>

\* part_000, lines 94-112: one iteration of the range loop over msgs; after the
\* last message the batch ends the dump when done is set
LoopPart0 ==
  /\ variant = "part0"
  /\ pc = "loop"
  /\ LET msg == msgs[i]
         r == processSingleMessage(msg, Req.Seq, Req.Pid)
         a == IF IsNil(r.m) THEN RecResult(Nil, NoErr, FALSE)
              ELSE MakeArchivalRecord(Val(r.m), FALSE)
     IN
     /\ it' = Iteration(msg, r, a.rec, a.err)
     /\ IF r.err # NoErr
          THEN /\ pc' = "returned"
               /\ ret' = ReturnErr(snps, r.err)
               /\ UNCHANGED <<done, archives>>
        ELSE IF a.panic
          THEN /\ pc' = "panic"
               /\ UNCHANGED <<done, archives, ret>>
        ELSE IF a.err # NoErr
          THEN /\ pc' = "returned"
               /\ ret' = ReturnErr(snps, a.err)
               /\ UNCHANGED <<done, archives>>
        ELSE
          /\ archives' = IF IsNil(r.m) THEN archives ELSE Append(archives, Val(a.rec))
          /\ done' = (done \/ ~r.cont)
          /\ pc' = AfterMessage(IF done' THEN "decode" ELSE "recv")
          /\ UNCHANGED ret
  /\ msgs' = IF pc' = "loop" THEN msgs ELSE <<>>
  /\ i' = IF pc' = "loop" THEN i + 1 ELSE 1
  /\ UNCHANGED <<variant, recvCalls, j, snps, call, out>>

\* part_000, lines 114-128: one iteration of the range loop over archives; the
\* Printf reads snp.TCPInfo, a nil pointer when the record had no INET_DIAG_INFO
DecodeArchive ==
  /\ variant = "part0"
  /\ pc = "decode"
  /\ j <= Len(archives)
  /\ LET d == Decode(archives[j]) IN
     IF d.panic \/ (~IsNil(d.snp) /\ IsNil(Val(d.snp).TCPInfo))
       THEN /\ pc' = "panic"
            /\ UNCHANGED <<j, snps>>
       ELSE /\ snps' = IF IsNil(d.snp) THEN snps ELSE Append(snps, Val(d.snp))
            /\ j' = j + 1
            /\ pc' = "decode"
  /\ UNCHANGED <<variant, recvCalls, msgs, i, it, done, archives, ret, call, out>>

\* part_000, line 129: return snps, nil
Return ==
  /\ variant = "part0"
  /\ pc = "decode"
  /\ j > Len(archives)
  /\ pc' = "returned"
  /\ ret' = ReturnSnps(snps)
  /\ UNCHANGED <<variant, recvCalls, msgs, i, it, done, archives, j, snps, call, out>>

Next ==
  \/ Start
  \/ StartFail
  \/ Receive
  \/ ReceiveFail
  \/ LoopMain
  \/ LoopPart0
  \/ DecodeArchive
  \/ Return

Spec == Init /\ [][Next]_vars

(***************************************************************************)
(* The functions applied to inputs of their own.                           *)
(***************************************************************************)
\* at most this many attributes in a table given to Decode
MaxAttrs == 2

Payloads ==
  {<<>>, <<0, 0, 0>>, <<0, 0, 0, 0>>, <<254, 255, 255, 255>>, <<0, 0, 0, 0, 9>>,
   <<0, 0, 0, 128>>, GoodData}

Messages ==
  {Msg(s, p, t, f, d) :
     s \in {Req.Seq, Req.Seq + 1}, p \in {Req.Pid, Req.Pid + 1},
     t \in {1, NLMSG_ERROR, NLMSG_DONE, SOCK_DIAG_BY_FAMILY},
     f \in {0, NLM_F_MULTI, NLM_F_MULTI + 1}, d \in Payloads}

ClassifyCalls ==
  {[fn |-> "processSingleMessage", m |-> m, seq |-> s, pid |-> p] :
     m \in Messages, s \in {Req.Seq, Req.Seq + 1}, p \in {Req.Pid, Req.Pid + 1}}

\* the attribute types a table may hold: one beyond the bound of MakeArchivalRecord
Types == 0..(2 * INET_DIAG_MAX + 1)

\* the struct size of a struct-typed attribute, 0 for the others
StructSize(t) ==
  CASE t = INET_DIAG_MEMINFO -> SizeofMemInfo
    [] t = INET_DIAG_INFO -> SizeofLinuxTCPInfo
    [] t = INET_DIAG_VEGASINFO -> SizeofVegasInfo
    [] t = INET_DIAG_SKMEMINFO -> SizeofSocketMemInfo
    [] t = INET_DIAG_DCTCPINFO -> SizeofDCTCPInfo
    [] t = INET_DIAG_BBRINFO -> SizeofBBRInfo
    [] OTHER -> 0
StructTypes == {t \in Types : StructSize(t) > 0}

\* value lengths: none, short, exact, long
Profiles == {"empty", "short", "exact", "long"}
ValueLen(t, prof) ==
  LET size == IF t \in StructTypes THEN StructSize(t)
              ELSE IF t = INET_DIAG_MARK THEN 4
              ELSE IF t = INET_DIAG_CONG THEN 6 ELSE 1 IN
  CASE prof = "empty" -> 0
    [] prof = "short" -> size \div 2
    [] prof = "exact" -> size
    [] OTHER -> size + 4
\* n bytes, none of them 0
Pattern(n) == [k \in 1..n |-> (k % 255) + 1]

SetMax(S) == CHOOSE x \in S : \A y \in S : y <= x

\* the table holding the types of S: the value of type f has profile prof, the
\* others have their exact length
TableOf(S, f, prof) ==
  [k \in 1..(IF S = {} THEN 1 ELSE SetMax(S) + 1) |->
     IF (k - 1) \in S
       THEN Some(Pattern(ValueLen(k - 1, IF k - 1 = f THEN prof ELSE "exact")))
       ELSE Nil]

\* the sets of at most n types
RECURSIVE SetsUpTo(_)
SetsUpTo(n) ==
  IF n = 0 THEN {{}}
  ELSE LET prev == SetsUpTo(n - 1) IN prev \cup {S \cup {t} : S \in prev, t \in Types}
TypeSets == SetsUpTo(MaxAttrs) \ {{}}

Meta == [UUID |-> "uuid", Sequence |-> 0]

Records ==
  {[RawIDM |-> Some(Hdr(10)), Attributes |-> TableOf(S, f, prof), Metadata |-> Nil] :
     <<S, f, prof>> \in {<<S, f, prof>> \in TypeSets \X Types \X Profiles : f \in S}}
  \cup
  {[RawIDM |-> h, Attributes |-> TableOf(S, 0, "exact"), Metadata |-> md] :
     h \in {Nil, Some(Hdr(10)), Some(<<2, 1>>)}, md \in {Nil, Some(Meta)},
     S \in {{}, {INET_DIAG_TOS}, {INET_DIAG_CONG, INET_DIAG_MARK}}}

\* tables with two values that are not of their exact length
MixedTables ==
  {[k \in 1..(SetMax({t, u}) + 1) |->
      IF k - 1 = t THEN Some(Pattern(ValueLen(t, pt)))
      ELSE IF k - 1 = u THEN Some(Pattern(ValueLen(u, pu)))
      ELSE Nil] :
     t \in {INET_DIAG_TOS, INET_DIAG_MARK, INET_DIAG_PROTOCOL},
     u \in {INET_DIAG_MEMINFO, INET_DIAG_CONG, INET_DIAG_SHUTDOWN, INET_DIAG_PAD},
     pt \in {"empty", "short"}, pu \in Profiles}

MixedRecords ==
  {[RawIDM |-> Some(Hdr(10)), Attributes |-> tb, Metadata |-> Nil] : tb \in MixedTables}

DecodeCalls == {[fn |-> "Decode", ar |-> ar] : ar \in Records \cup MixedRecords}

\* the 16 address bytes of an IPv4 address, of the IPv4-mapped IPv6 address of
\* the same four bytes, and of an IPv6 address
V4(a, b, c, d) == <<a, b, c, d>> \o Zeros(12)
Mapped(a, b, c, d) == Zeros(10) \o <<255, 255, a, b, c, d>>
V6(a, b, z) == <<a, b>> \o Zeros(13) \o <<z>>

Addresses ==
  {V4(10, 0, 0, 1), V4(127, 0, 0, 1), V4(0, 0, 0, 0),
   Mapped(10, 0, 0, 1), Mapped(127, 0, 0, 1), Mapped(169, 254, 0, 1),
   Mapped(224, 0, 0, 1), Mapped(0, 0, 0, 0),
   V6(32, 1, 1), V6(0, 0, 1), V6(254, 128, 1), V6(255, 2, 1)}

\* a header with these source and destination addresses
HdrOf(src, dst) ==
  [k \in 1..SizeofInetDiagMsg |->
     IF k = 1 THEN 10 ELSE IF k = 2 THEN 1
     ELSE IF k \in 9..24 THEN src[k - 8]
     ELSE IF k \in 25..40 THEN dst[k - 24] ELSE 0]

\* at most this many attributes in an attribute buffer
MaxList == 2

\* attributes as the kernel encodes them: types inside and beyond the table
\* bound, values of length 0, 1 and 5
AttrPool ==
  {[Type |-> t, Value |-> v] :
     t \in {0, INET_DIAG_TOS, 2 * INET_DIAG_MAX, 2 * INET_DIAG_MAX + 1, 300},
     v \in {<<>>, <<7>>, <<1, 2, 3, 4, 5>>}}

AttrLists == UNION {[1..n -> AttrPool] : n \in 0..MaxList}

RECURSIVE Encode(_, _)
Encode(attrs, k) ==
  IF k > Len(attrs) THEN <<>>
  ELSE Attr(attrs[k].Type, attrs[k].Value) \o Encode(attrs, k + 1)

\* what may follow the last whole attribute: nothing, fewer bytes than a header,
\* a header announcing more bytes than remain or fewer than a header, and an
\* attribute without its padding
Tails ==
  {<<>>, <<1>>, <<1, 0>>, <<1, 0, 0>>, <<8, 0, 1, 0>>, <<3, 0, 1, 0>>, <<5, 0, 1, 0, 9>>}
RecordTails == {<<>>, <<1, 0, 0>>, <<8, 0, 1, 0>>, <<5, 0, 1, 0, 9>>}

ParseCalls ==
  {[fn |-> "ParseRouteAttr", attrs |-> a, tail |-> t, b |-> Encode(a, 1) \o t] :
     a \in AttrLists, t \in Tails}

RecordCalls ==
  {[fn |-> "MakeArchivalRecord", attrs |-> a, tail |-> t, skipLocal |-> FALSE,
    msg |-> Msg(Req.Seq, Req.Pid, SOCK_DIAG_BY_FAMILY, 0, Hdr(10) \o Encode(a, 1) \o t)] :
     a \in AttrLists, t \in RecordTails}
  \cup
  {[fn |-> "MakeArchivalRecord", attrs |-> <<>>, tail |-> <<>>, skipLocal |-> sl, msg |-> m] :
     sl \in BOOLEAN, m \in Wire}
  \cup
  {[fn |-> "MakeArchivalRecord", attrs |-> <<>>, tail |-> <<>>, skipLocal |-> sl,
    msg |-> Msg(Req.Seq, Req.Pid, SOCK_DIAG_BY_FAMILY, 0,
                HdrOf(src, dst) \o <<8, 0, 2, 0, 1, 2, 3, 4>>)] :
     sl \in BOOLEAN, src \in Addresses, dst \in Addresses}

UnitInit ==
  /\ variant = "none"
  /\ pc = "idle"
  /\ recvCalls = 0
  /\ msgs = <<>>
  /\ i = 1
  /\ it = NoIteration
  /\ done = FALSE
  /\ archives = <<>>
  /\ j = 1
  /\ snps = <<>>
  /\ ret = NoRet
  /\ call \in ClassifyCalls \cup DecodeCalls \cup ParseCalls \cup RecordCalls
  /\ out = [done |-> FALSE]

stream == <<variant, pc, recvCalls, msgs, i, it, done, archives, j, snps, ret>>

CallProcessSingleMessage ==
  /\ call.fn = "processSingleMessage"
  /\ ~out.done
  /\ out' = [done |-> TRUE, r |-> processSingleMessage(call.m, call.seq, call.pid)]
  /\ UNCHANGED <<stream, call>>

CallDecode ==
  /\ call.fn = "Decode"
  /\ ~out.done
  /\ out' = [done |-> TRUE, r |-> Decode(call.ar)]
  /\ UNCHANGED <<stream, call>>

CallParseRouteAttr ==
  /\ call.fn = "ParseRouteAttr"
  /\ ~out.done
  /\ out' = [done |-> TRUE, r |-> ParseRouteAttr(call.b)]
  /\ UNCHANGED <<stream, call>>

CallMakeArchivalRecord ==
  /\ call.fn = "MakeArchivalRecord"
  /\ ~out.done
  /\ out' = [done |-> TRUE, r |-> MakeArchivalRecord(call.msg, call.skipLocal)]
  /\ UNCHANGED <<stream, call>>

UnitNext ==
  \/ CallProcessSingleMessage
  \/ CallDecode
  \/ CallParseRouteAttr
  \/ CallMakeArchivalRecord

UnitSpec == UnitInit /\ [][UnitNext]_vars

(***************************************************************************)
(* Properties of the classifier.                                           *)
(***************************************************************************)
Classified == call.fn = "processSingleMessage" /\ out.done
Matching == call.m.Seq = call.seq /\ call.m.Pid = call.pid

\* C1: a message whose sequence number or process id differs from the expected
\* one yields a non-nil error (ErrBadSequence, else ErrBadPid) and a nil
\* message, whatever its type, flags and payload.
C1_MismatchIsError ==
  Classified =>
    /\ call.m.Seq # call.seq => (out.r.err = ErrBadSequence /\ IsNil(out.r.m))
    /\ (call.m.Seq = call.seq /\ call.m.Pid # call.pid)
         => (out.r.err = ErrBadPid /\ IsNil(out.r.m))

C1_Witness ==
  /\ Classified
  /\ call.m.Seq = call.seq /\ call.m.Pid # call.pid
  /\ call.m.Type = NLMSG_DONE
  /\ out.r.err = ErrBadPid

\* C2 as stated: a DONE message yields (nil, false, nil) for every sequence
\* number and process id.
C2_DoneAlwaysEnds ==
  (Classified /\ call.m.Type = NLMSG_DONE) => out.r = Triple(Nil, FALSE, NoErr)

\* C2 as amended: a DONE message whose sequence number and process id match the
\* expected ones yields (nil, false, nil), for every flags and payload.
C2_MatchingDoneEnds ==
  (Classified /\ call.m.Type = NLMSG_DONE /\ Matching)
    => out.r = Triple(Nil, FALSE, NoErr)

C2_Witness ==
  /\ Classified /\ call.m.Type = NLMSG_DONE /\ Matching
  /\ call.m.Flags = NLM_F_MULTI /\ Len(call.m.Data) > 4
  /\ out.r = Triple(Nil, FALSE, NoErr)

\* C5: a matching error message with a non-zero code yields a non-nil error and
\* is not handed back as an accepted message.
C5_KernelErrorSurfaced ==
  (/\ Classified /\ Matching
   /\ call.m.Type = NLMSG_ERROR /\ Len(call.m.Data) >= 4
   /\ ErrorCode(call.m.Data) # 0)
    => (out.r.err # NoErr /\ IsNil(out.r.m))

(***************************************************************************)
(* Properties of Decode.                                                   *)
(***************************************************************************)
Decoded == call.fn = "Decode" /\ out.done
Snapshotted == Decoded /\ ~IsNil(out.r.snp)
Present(t) == t < Len(call.ar.Attributes) /\ ~IsNil(call.ar.Attributes[t + 1])
RawOf(t) == Val(call.ar.Attributes[t + 1])

\* the field of the Snapshot a struct-typed attribute is decoded into
StructField(snp, t) ==
  CASE t = INET_DIAG_MEMINFO -> snp.MemInfo
    [] t = INET_DIAG_INFO -> snp.TCPInfo
    [] t = INET_DIAG_VEGASINFO -> snp.VegasInfo
    [] t = INET_DIAG_SKMEMINFO -> snp.SocketMem
    [] t = INET_DIAG_DCTCPINFO -> snp.DCTCPInfo
    [] OTHER -> snp.BBRInfo

\* the bit of type t in a mask: bit t-1
HasBit(mask, t) == (t - 1) \in mask

\* C8: for a struct-typed attribute the NotFullyParsed bit is set
\* exactly when the raw length differs from the struct size, so a shorter value
\* sets it.
C8_FullyParsedIffExactSize ==
  Snapshotted =>
    \A t \in StructTypes :
      Present(t) =>
        (HasBit(Val(out.r.snp).NotFullyParsed, t) <=> (Len(RawOf(t)) # StructSize(t)))

\* C9: after Decode the Observed bit of type T is set if and only if the table
\* entry at index T is non-nil, for every index T of the table, 0 and the
\* indexes up to 2 x INET_DIAG_MAX included.
C9_ObservedIffPresent ==
  Snapshotted =>
    \A t \in 0..(Len(call.ar.Attributes) - 1) :
      HasBit(Val(out.r.snp).Observed, t) <=> Present(t)

\* C10: in every Snapshot Decode returns, the NotFullyParsed mask is a subset of
\* the Observed mask.
C10_NotFullyParsedSubset ==
  Snapshotted => Val(out.r.snp).NotFullyParsed \subseteq Val(out.r.snp).Observed

C10_Witness ==
  /\ Snapshotted
  /\ Val(out.r.snp).NotFullyParsed # {}
  /\ Val(out.r.snp).NotFullyParsed # Val(out.r.snp).Observed

(***************************************************************************)
(* Properties of getSnapshots.                                             *)
(***************************************************************************)
\* the last message classified was a matching error message with code 0
LastWasAck ==
  /\ it.ran
  /\ Val(it.msg).Seq = Req.Seq /\ Val(it.msg).Pid = Req.Pid
  /\ Val(it.msg).Type = NLMSG_ERROR
  /\ Len(Val(it.msg).Data) >= 4
  /\ ErrorCode(Val(it.msg).Data) = 0

\* C3: in main.go, once the classifier returned continueExpected = false with a
\* nil error, the receive loop is left, whatever MakeSnapShot produced.
C3_CompletionLeavesLoop ==
  (variant = "main" /\ it.ran /\ it.err = NoErr /\ ~it.cont)
    => pc \in {"returned", "panic"}

\* C4 as stated: a matching error message with code 0 yields no error and does
\* not make continueExpected false.
C4_AckDoesNotEndStream ==
  LastWasAck => (it.err = NoErr /\ it.cont)

\* C4 as amended: a matching error message with code 0 yields (nil, false, nil):
\* no error and no message, but it signals completion like DONE, so getSnapshots
\* does not call Receive again after it (part_000 sets done and still handles
\* the rest of the batch).
C4_AckEndsStream ==
  LastWasAck =>
    /\ it.err = NoErr /\ IsNil(it.m) /\ ~it.cont
    /\ pc # "recv"
    /\ (variant = "part0" /\ pc = "loop") => done

C4_Witness ==
  /\ LastWasAck
  /\ variant = "part0"
  /\ pc = "loop"
  /\ done
  /\ recvCalls < MaxReceives

\* C6: when record extraction fails for an accepted message, getSnapshots
\* returns that error and no snapshots.
C6_ExtractionFailureAborts ==
  (it.ran /\ it.err = NoErr /\ ~IsNil(it.m) /\ it.exterr # NoErr)
    => (pc = "returned" /\ ret.err = it.exterr /\ IsNil(ret.snps))

\* C7: when a message fails classification with a sequence or pid mismatch,
\* getSnapshots returns that error and a nil result, whatever was accepted before.
C7_MismatchAborts ==
  (it.ran /\ it.err \in {ErrBadSequence, ErrBadPid})
    => (pc = "returned" /\ ret.returned /\ ret.err = it.err /\ IsNil(ret.snps))

C7_Witness ==
  /\ it.ran /\ it.err = ErrBadPid
  /\ pc = "returned"
  /\ Len(snps) > 0
  /\ IsNil(ret.snps)

\* the types Decode names without decoding them, lines 167-174 and 181-182
NotHandled ==
  {INET_DIAG_SKV6ONLY, INET_DIAG_LOCALS, INET_DIAG_PEERS, INET_DIAG_PAD, INET_DIAG_MD5SIG}
\* the types with a decoder
Handled == (1..(INET_DIAG_MAX - 1)) \ NotHandled
\* the types of the table that are present
PresentTypes == {t \in 0..(Len(call.ar.Attributes) - 1) : Present(t)}

\* C11: a present attribute of a type that is named but not decoded
\* gets its Observed bit and not its NotFullyParsed bit, and a present attribute
\* of an unknown type gets no NotFullyParsed bit.
C11_UndecodedNeverNotFullyParsed ==
  Snapshotted =>
    \A t \in PresentTypes \ Handled :
      /\ ~HasBit(Val(out.r.snp).NotFullyParsed, t)
      /\ t \in NotHandled => HasBit(Val(out.r.snp).Observed, t)

Parsed == call.fn = "ParseRouteAttr" /\ out.done
Recorded == call.fn = "MakeArchivalRecord" /\ out.done

\* C12: Decode, MakeArchivalRecord and ParseRouteAttr end with a result or an
\* error return on every input, never with an out-of-range slice or index.
C12_NoPanic == (Decoded \/ Recorded \/ Parsed) => ~out.r.panic

\* C13: ParseRouteAttr fails on a buffer of 1 to SizeofRtAttr-1 bytes and on a
\* buffer whose last whole attribute is followed by that few bytes; on an empty
\* buffer it returns no attributes and no error.
C13_ShortRemainderIsError ==
  Parsed =>
    /\ Len(call.b) = 0 => (out.r.err = NoErr /\ out.r.attrs = <<>> /\ ~out.r.panic)
    /\ Len(call.tail) \in 1..(SizeofRtAttr - 1) => (out.r.err # NoErr /\ ~out.r.panic)

\* the one-byte attributes, decoded by toUint8
Scalars ==
  {INET_DIAG_TOS, INET_DIAG_TCLASS, INET_DIAG_CLASS_ID, INET_DIAG_SHUTDOWN,
   INET_DIAG_PROTOCOL}

\* a present scalar without a byte, or a present mark not of 4 bytes
Malformed(t) ==
  /\ Present(t)
  /\ \/ t \in Scalars /\ Len(RawOf(t)) = 0
     \/ t = INET_DIAG_MARK /\ Len(RawOf(t)) # 4

ScalarField(snp, t) ==
  CASE t = INET_DIAG_TOS -> snp.TOS
    [] t = INET_DIAG_TCLASS -> snp.TClass
    [] t = INET_DIAG_CLASS_ID -> snp.ClassID
    [] t = INET_DIAG_SHUTDOWN -> snp.Shutdown
    [] t = INET_DIAG_PROTOCOL -> snp.Protocol
    [] OTHER -> snp.Mark

\* the record with the attribute of type t absent
Without(ar, t) == [ar EXCEPT !.Attributes[t + 1] = Nil]

\* C14: a scalar attribute with an empty value, or a mark not of 4 bytes, does
\* not change what Decode does with the rest of the record: where Decode of the
\* record without it returns a Snapshot, Decode of the record returns, with a
\* nil error, that Snapshot with the Observed and NotFullyParsed bits of the
\* type added and the field at zero, and where it does not, neither does this.
C14_FieldFailureKeepsRecord ==
  Decoded =>
    \A t \in Scalars \cup {INET_DIAG_MARK} :
      Malformed(t) =>
        LET d == Decode(Without(call.ar, t)) IN
        IF d.panic \/ d.err # NoErr THEN out.r = d
        ELSE /\ out.r.err = NoErr /\ ~out.r.panic /\ ~IsNil(out.r.snp)
             /\ out.r.meta = d.meta
             /\ ScalarField(Val(out.r.snp), t) = ScalarField(ZeroSnapshot, t)
             /\ Val(out.r.snp) =
                  [Val(d.snp) EXCEPT !.Observed = @ \cup {t - 1},
                                     !.NotFullyParsed = @ \cup {t - 1}]

C14_Witness ==
  /\ Snapshotted
  /\ Malformed(INET_DIAG_MARK) /\ Len(RawOf(INET_DIAG_MARK)) = 2
  /\ Present(INET_DIAG_MEMINFO)
  /\ Val(out.r.snp).Mark = Zeros(4)
  /\ Val(out.r.snp).NotFullyParsed = {INET_DIAG_MARK - 1}
  /\ Val(out.r.snp).Observed = {INET_DIAG_MARK - 1, INET_DIAG_MEMINFO - 1}
  /\ ~IsNil(Val(out.r.snp).MemInfo)

HeaderAbsent == IsNil(call.ar.RawIDM)
MetadataAbsent == IsNil(call.ar.Metadata)
HeaderParses == HeaderAbsent \/ Parse(Val(call.ar.RawIDM)).err = NoErr

\* C15: Decode returns the empty-record error exactly when the record has
\* neither header nor Metadata; with one of them, and a header that parses, it
\* returns a Snapshot and a nil error; for a record with Metadata only it
\* returns that Metadata and a Snapshot without header whose masks have the
\* bits of the present attributes only.  (A record on which Decode panics
\* returns nothing.)
C15_EmptyRecordIffBothAbsent ==
  Decoded =>
    /\ out.r.err = ErrEmptyRecord <=> (HeaderAbsent /\ MetadataAbsent)
    /\ (~(HeaderAbsent /\ MetadataAbsent) /\ HeaderParses /\ ~out.r.panic)
         => (out.r.err = NoErr /\ ~IsNil(out.r.snp))
    /\ (HeaderAbsent /\ ~MetadataAbsent /\ ~out.r.panic)
         => /\ out.r.meta = call.ar.Metadata
            /\ IsNil(Val(out.r.snp).InetDiagMsg)
            /\ Val(out.r.snp).Observed = {t - 1 : t \in PresentTypes \cap (1..32)}
            /\ Val(out.r.snp).NotFullyParsed \subseteq Val(out.r.snp).Observed

C15_Witness ==
  /\ Decoded
  /\ HeaderAbsent /\ ~MetadataAbsent
  /\ out.r.err = NoErr
  /\ out.r.meta = Some(Meta)
  /\ Val(out.r.snp).Observed = {INET_DIAG_CONG - 1, INET_DIAG_MARK - 1}
  /\ Val(out.r.snp).NotFullyParsed = {}

\* the multi-part flag is among the flags of the message
HasMultiFlag(m) == (m.Flags \div NLM_F_MULTI) % 2 = 1

\* C16: a message with the expected sequence number and pid that is neither
\* DONE nor an error message is returned itself with a nil error, and more
\* messages are expected exactly when it carries the multi-part flag.
C16_DataMessageAccepted ==
  (Classified /\ Matching /\ call.m.Type \notin {NLMSG_DONE, NLMSG_ERROR})
    => /\ out.r.m = Some(call.m)
       /\ out.r.err = NoErr
       /\ out.r.cont <=> HasMultiFlag(call.m)

C16_Witness ==
  /\ Classified /\ Matching
  /\ call.m.Type = SOCK_DIAG_BY_FAMILY
  /\ call.m.Flags = NLM_F_MULTI + 1
  /\ out.r.m = Some(call.m)
  /\ out.r.cont

\* the message of the call carries the attributes call.attrs after its header,
\* followed by at most 3 bytes
WholeAttrs ==
  /\ Recorded
  /\ call.msg.Type = SOCK_DIAG_BY_FAMILY
  /\ call.msg.Data = Hdr(10) \o Encode(call.attrs, 1) \o call.tail
  /\ Len(call.tail) < SizeofRtAttr

SentTypes == {call.attrs[k].Type : k \in 1..Len(call.attrs)}
LargestType == IF SentTypes = {} THEN 0 ELSE SetMax(SentTypes)
TableBound == 2 * INET_DIAG_MAX
Table == Val(out.r.rec).Attributes

\* C17: MakeArchivalRecord returns a record with a nil error whatever the types
\* of the attributes; the table has min(largest type, 2*INET_DIAG_MAX) + 1
\* entries, the entry of index t is present exactly when an attribute of type t
\* was sent, and attributes of a type above the bound are in no entry.
C17_TableBounded ==
  WholeAttrs =>
    /\ out.r.err = NoErr /\ ~out.r.panic /\ ~IsNil(out.r.rec)
    /\ Len(Table) = (IF LargestType < TableBound THEN LargestType ELSE TableBound) + 1
    /\ \A t \in 0..(Len(Table) - 1) :
         IF t \in SentTypes
         THEN \E k \in 1..Len(call.attrs) :
                call.attrs[k].Type = t /\ Table[t + 1] = Some(call.attrs[k].Value)
         ELSE IsNil(Table[t + 1])

C17_Witness ==
  /\ WholeAttrs
  /\ SentTypes = {INET_DIAG_TOS, 300}
  /\ out.r.err = NoErr
  /\ Len(Table) = TableBound + 1
  /\ ~IsNil(Table[INET_DIAG_TOS + 1])

\* the last attribute of type t that was sent
LastOf(t) ==
  LET k == SetMax({n \in 1..Len(call.attrs) : call.attrs[n].Type = t})
  IN call.attrs[k].Value

\* C19: when a type occurs more than once, MakeArchivalRecord returns the
\* record with a nil error and the entry of that type holds the value of its
\* last occurrence.
C19_LastWriteWins ==
  WholeAttrs =>
    /\ out.r.err = NoErr /\ ~IsNil(out.r.rec)
    /\ \A t \in SentTypes : t <= TableBound => Table[t + 1] = Some(LastOf(t))

C19_Witness ==
  /\ WholeAttrs
  /\ Len(call.attrs) = 2
  /\ call.attrs[1].Type = INET_DIAG_TOS /\ call.attrs[2].Type = INET_DIAG_TOS
  /\ call.attrs[1].Value = <<7>> /\ call.attrs[2].Value = <<1, 2, 3, 4, 5>>
  /\ Table[INET_DIAG_TOS + 1] = Some(<<1, 2, 3, 4, 5>>)

\* C18: in getSnapshots of part_000, once a message of the batch has signalled
\* completion (done is set), no message of that batch remains to be classified.
C18_CompletionStopsBatch == (variant = "part0" /\ done) => pc # "loop"

\* an error message with the expected sequence number and pid and a payload too
\* short for an error code
ShortError(msg) ==
  /\ msg.Seq = Req.Seq /\ msg.Pid = Req.Pid
  /\ msg.Type = NLMSG_ERROR
  /\ Len(msg.Data) < 4

\* C20: for an error message with the expected sequence number and pid and a
\* payload of fewer than 4 bytes the classifier returns ErrBadMsgData, no
\* message and no continuation, and getSnapshots returns that error and a nil
\* result.
C20_ShortErrorAborts ==
  (it.ran /\ ShortError(Val(it.msg)))
    => /\ it.err = ErrBadMsgData /\ IsNil(it.m) /\ ~it.cont
       /\ pc = "returned" /\ ret.returned
       /\ ret.err = ErrBadMsgData /\ IsNil(ret.snps)

C20_Witness ==
  /\ variant = "part0"
  /\ it.ran /\ ShortError(Val(it.msg))
  /\ Len(archives) > 0
  /\ pc = "returned"
  /\ ret.err = ErrBadMsgData /\ IsNil(ret.snps)

====
